---- MODULE Spec2Model ----
(***************************************************************************)
(* Model of dlpx/virtualization/libs/libs.py: the Virtualization Libs API  *)
(* wrappers.  Each wrapper packs its arguments into a request message and  *)
(* invokes one method of the injected client stub internal_libs.  The stub *)
(* is outside the module: what it returns, and whether it raises, is a     *)
(* nondeterministic input of every call.                                   *)
(***************************************************************************)
EXTENDS Integers, Sequences, FiniteSets, TLC

VARIABLES
  internal_libs,  \* invocations received by the injected stub, in order
  issued,         \* wrapper calls made by the caller, in order
  reply,          \* what the stub did on the last invocation
  outcome         \* what the last wrapper call did to its caller

vars == <<internal_libs, issued, reply, outcome>>

(* ------------------------------ bounds -------------------------------- *)

\* number of wrapper calls the caller makes in one run
MaxCalls == 2

(* --------------------------- value domains ---------------------------- *)

\* Python's None, and an argument that is present
None == [none |-> TRUE]
Some(v) == [none |-> FALSE, val |-> v]

RemoteConnections ==
  { [platform |-> "UNIX", host |-> "unixhost"],
    [platform |-> "WINDOWS", host |-> "winhost"] }

Commands == {"cmd"}

\* the dicts a caller passes as variables (name -> value)
VariableDicts ==
  { <<>>,
    [k \in {"FOO"} |-> "bar"],
    [k \in {"FOO"} |-> "baz"],
    [k \in {"BAR"} |-> "bar"],
    [k \in {"FOO", "BAR"} |-> IF k = "FOO" THEN "bar" ELSE "baz"] }

VariablesArgs == {None} \cup { Some(d) : d \in VariableDicts }

Directories == {"/src"}
RsyncUserArgs == {None, Some("rsync")}
PathListArgs == {None, Some(<<"p1", "p2">>)}
Messages == {"m1", "m2"}

\* what a stub method can do: raise, or return a value
Raise == [kind |-> "raise", value |-> [error |-> "BackendError"]]
Return(v) == [kind |-> "return", value |-> v]

\* response messages of the three run-* stub methods
RunResponses ==
  { [exit_code |-> e, stdout |-> o] : e \in {0, 3}, o \in {"", "out"} }

RunReplies == {Raise} \cup { Return(r) : r \in RunResponses }
VoidReplies == {Raise, Return(None), Return([response |-> "msg"])}

\* what a wrapper does to its caller
Raised(e) == [kind |-> "raised", value |-> e]
Returned(v) == [kind |-> "returned", value |-> v]

(* ------------------------- request messages --------------------------- *)

\* the loop "for variable, value in variables.items():
\*             request.variables[variable] = value", one item per step
RECURSIVE SetVariables(_, _, _)
SetVariables(request_variables, variables, keys) ==
  IF keys = {} THEN request_variables
  ELSE LET variable == CHOOSE k \in keys : TRUE
           value == variables[variable]
           assigned == [k \in DOMAIN request_variables \cup {variable} |->
                          IF k = variable THEN value ELSE request_variables[k]]
       IN SetVariables(assigned, variables, keys \ {variable})

\* "if variables is None: variables = {}"
DefaultVariables(variables) ==
  IF variables = None THEN <<>> ELSE variables.val

RunBashRequest(remote_connection, command, variables, use_login_shell) ==
  LET vs == DefaultVariables(variables)
  IN [remote_connection |-> remote_connection,
      command |-> command,
      use_login_shell |-> use_login_shell,
      variables |-> SetVariables(<<>>, vs, DOMAIN vs)]

\* a request built without the loop over variables.items()
RunPowerShellRequest_without_variables(remote_connection, command, variables) ==
  [remote_connection |-> remote_connection,
   command |-> command,
   variables |-> <<>>]

RunPowerShellRequest(remote_connection, command, variables) ==
  LET vs == DefaultVariables(variables)
  IN [remote_connection |-> remote_connection,
      command |-> command,
      variables |-> SetVariables(<<>>, vs, DOMAIN vs)]

RunExpectRequest(remote_connection, command, variables) ==
  LET vs == DefaultVariables(variables)
  IN [remote_connection |-> remote_connection,
      command |-> command,
      variables |-> SetVariables(<<>>, vs, DOMAIN vs)]

\* unset string fields read as "", repeated fields start empty and are
\* extended
RunSyncRequest(remote_connection, source_directory, rsync_user, exclude_paths, sym_links_to_follow) ==
  [remote_connection |-> remote_connection,
   source_directory |-> source_directory,
   rsync_user |-> IF rsync_user # None THEN rsync_user.val ELSE "",
   exclude_paths |->
     IF exclude_paths # None THEN <<>> \o exclude_paths.val ELSE <<>>,
   sym_links_to_follow |->
     IF sym_links_to_follow # None THEN <<>> \o sym_links_to_follow.val
     ELSE <<>>]

\* a request whose level is never assigned keeps the enum's first value
LogRequest_level_unset(message, log_level) ==
  [message |-> message, level |-> "DEBUG"]

LogRequest(message, log_level) ==
  [message |-> message, level |-> log_level]

(* ------------------------- the injected stub -------------------------- *)

\* internal_libs.<method>(request): the stub receives the request
Invoke(method, request) ==
  internal_libs' = Append(internal_libs, [method |-> method, request |-> request])

(* ---------------------- what each wrapper returns --------------------- *)

\* "run_bash_response = internal_libs.run_bash(...); return run_bash_response"
run_bash_return(stub) ==
  IF stub.kind = "raise" THEN Raised(stub.value) ELSE Returned(stub.value)

run_powershell_return(stub) ==
  IF stub.kind = "raise" THEN Raised(stub.value) ELSE Returned(stub.value)

\* a run_sync that catches the stub's error and returns normally
run_sync_return_swallowed(stub) ==
  Returned(None)

\* a run_sync that ends in "return internal_libs.run_sync(...)"
run_sync_return_passed_on(stub) ==
  IF stub.kind = "raise" THEN Raised(stub.value) ELSE Returned(stub.value)

\* "internal_libs.run_sync(run_sync_request)": the value is dropped
run_sync_return(stub) ==
  IF stub.kind = "raise" THEN Raised(stub.value) ELSE Returned(None)

\* "internal_libs.run_expect(run_expect_request)": the value is dropped
run_expect_return(stub) ==
  IF stub.kind = "raise" THEN Raised(stub.value) ELSE Returned(None)

\* "internal_libs.log(log_request)": the value is dropped
log_request_return(stub) ==
  IF stub.kind = "raise" THEN Raised(stub.value) ELSE Returned(None)

(* ------------------------------ wrappers ------------------------------ *)

\* the caller makes one more call
Issue(fn, args) ==
  /\ Len(issued) < MaxCalls
  /\ issued' = Append(issued, [fn |-> fn, args |-> args])

run_bash ==
  \E remote_connection \in RemoteConnections, command \in Commands,
     variables \in VariablesArgs, use_login_shell \in BOOLEAN,
     stub \in RunReplies :
    /\ Issue("run_bash", [remote_connection |-> remote_connection,
                          command |-> command, variables |-> variables,
                          use_login_shell |-> use_login_shell])
    /\ Invoke("run_bash", RunBashRequest(remote_connection, command,
                                         variables, use_login_shell))
    /\ reply' = stub
    /\ outcome' = run_bash_return(stub)

run_sync ==
  \E remote_connection \in RemoteConnections,
     source_directory \in Directories, rsync_user \in RsyncUserArgs,
     exclude_paths \in PathListArgs, sym_links_to_follow \in PathListArgs,
     stub \in VoidReplies :
    /\ Issue("run_sync", [remote_connection |-> remote_connection,
                          source_directory |-> source_directory,
                          rsync_user |-> rsync_user,
                          exclude_paths |-> exclude_paths,
                          sym_links_to_follow |-> sym_links_to_follow])
    /\ Invoke("run_sync", RunSyncRequest(remote_connection, source_directory,
                                         rsync_user, exclude_paths,
                                         sym_links_to_follow))
    /\ reply' = stub
    /\ outcome' = run_sync_return(stub)

run_powershell ==
  \E remote_connection \in RemoteConnections, command \in Commands,
     variables \in VariablesArgs, stub \in RunReplies :
    /\ Issue("run_powershell", [remote_connection |-> remote_connection,
                                command |-> command, variables |-> variables])
    /\ Invoke("run_powershell",
              RunPowerShellRequest(remote_connection, command, variables))
    /\ reply' = stub
    /\ outcome' = run_powershell_return(stub)

\* a run_expect that calls internal_libs.run_bash
run_expect_via_run_bash ==
  \E remote_connection \in RemoteConnections, command \in Commands,
     variables \in VariablesArgs, stub \in RunReplies :
    /\ Issue("run_expect", [remote_connection |-> remote_connection,
                            command |-> command, variables |-> variables])
    /\ Invoke("run_bash",
              RunExpectRequest(remote_connection, command, variables))
    /\ reply' = stub
    /\ outcome' = run_expect_return(stub)

run_expect ==
  \E remote_connection \in RemoteConnections, command \in Commands,
     variables \in VariablesArgs, stub \in RunReplies :
    /\ Issue("run_expect", [remote_connection |-> remote_connection,
                            command |-> command, variables |-> variables])
    /\ Invoke("run_expect",
              RunExpectRequest(remote_connection, command, variables))
    /\ reply' = stub
    /\ outcome' = run_expect_return(stub)

\* a log_request that keeps DEBUG records to itself
log_request_filtering(message, log_level) ==
  \E stub \in VoidReplies :
    /\ IF log_level = "DEBUG"
       THEN internal_libs' = internal_libs
       ELSE Invoke("log", LogRequest(message, log_level))
    /\ reply' = stub
    /\ outcome' = log_request_return(stub)

\* helper of the three log wrappers
log_request(message, log_level) ==
  \E stub \in VoidReplies :
    /\ Invoke("log", LogRequest(message, log_level))
    /\ reply' = stub
    /\ outcome' = log_request_return(stub)

log_debug ==
  \E message \in Messages :
    /\ Issue("log_debug", [message |-> message])
    /\ log_request(message, "DEBUG")

log_info ==
  \E message \in Messages :
    /\ Issue("log_info", [message |-> message])
    /\ log_request(message, "INFO")

log_error ==
  \E message \in Messages :
    /\ Issue("log_error", [message |-> message])
    /\ log_request(message, "ERROR")

(* --------------------------- specification ---------------------------- *)

Init ==
  /\ internal_libs = <<>>
  /\ issued = <<>>
  /\ reply = [kind |-> "none", value |-> None]
  /\ outcome = [kind |-> "none", value |-> None]

Next ==
  \/ run_bash
  \/ run_sync
  \/ run_powershell
  \/ run_expect
  \/ log_debug
  \/ log_info
  \/ log_error

Spec == Init /\ [][Next]_vars

(* ------------------------------ properties ---------------------------- *)

Last == issued[Len(issued)]
LastInvocation == internal_libs[Len(internal_libs)]

RunFns == {"run_bash", "run_powershell", "run_expect"}
RemoteFns == {"run_bash", "run_sync", "run_powershell", "run_expect"}
LogFns == {"log_debug", "log_info", "log_error"}

\* C1: for run_bash, run_powershell and run_expect the caller observes
\* success if and only if the executed logic exited with code 0: exit code 0
\* gives a normal return, any other exit code reaches the caller as a
\* failure, whatever output was captured.
C1_ExitCodeDecidesOutcome ==
  (issued # <<>> /\ Last.fn \in RunFns /\ reply.kind = "return") =>
    /\ reply.value.exit_code = 0 => outcome.kind = "returned"
    /\ reply.value.exit_code # 0 => outcome.kind = "raised"

\* C2: each of run_bash, run_powershell and run_expect returns to its caller
\* the response the stub produced for that request, never None in its place.
C2_RunReturnsBackendResponse ==
  (issued # <<>> /\ Last.fn \in RunFns /\ reply.kind = "return") =>
    outcome = Returned(reply.value)

\* C3: when the stub call made by run_bash, run_sync, run_powershell or
\* run_expect fails, the caller gets that failure, not a normal return, and
\* the wrapper has made no second stub call.
C3_BackendFailurePropagates ==
  (issued # <<>> /\ Last.fn \in RemoteFns /\ reply.kind = "raise") =>
    /\ outcome = Raised(reply.value)
    /\ Len(internal_libs) = Len(issued)

C3_Witness ==
  /\ issued # <<>>
  /\ Last.fn = "run_sync"
  /\ reply.kind = "raise"
  /\ outcome.kind = "raised"
  /\ LastInvocation.method = "run_sync"

\* C4: a logging call never fails: it returns normally to its caller
\* whatever the stub's log method does, a raised error included.
C4_LogNeverFails ==
  (issued # <<>> /\ Last.fn \in LogFns) => outcome.kind = "returned"

\* C5: run_powershell given a Unix connection fails with UnsupportedPlatform
\* and no request for it is forwarded to the stub.
C5_PowerShellRejectsUnix ==
  /\ (issued # <<>> /\ Last.fn = "run_powershell"
        /\ Last.args.remote_connection.platform = "UNIX") =>
       outcome = Raised([error |-> "UnsupportedPlatform"])
  /\ \A i \in DOMAIN internal_libs :
       ~ /\ internal_libs[i].method = "run_powershell"
         /\ internal_libs[i].request.remote_connection.platform = "UNIX"

\* C6: run_sync returns no value on success whatever the stub's run_sync
\* returns; apart from plain completion its only outcome is a failure.
C6_RunSyncReturnsNothing ==
  (issued # <<>> /\ Last.fn = "run_sync") =>
    /\ reply.kind = "return" => outcome = Returned(None)
    /\ outcome = Returned(None) \/ outcome.kind = "raised"

C6_Witness ==
  /\ issued # <<>>
  /\ Last.fn = "run_sync"
  /\ reply = Return([response |-> "msg"])
  /\ outcome = Returned(None)

\* C7: log_debug, log_info and log_error each hand the stub's log method a
\* request of level DEBUG, INFO and ERROR respectively with the caller's
\* message unchanged; the request has no remote connection and no stub
\* method other than log is invoked.
C7_LogLevelAndMessage ==
  \A i \in DOMAIN issued :
    issued[i].fn \in LogFns =>
      /\ Len(internal_libs) = Len(issued)
      /\ internal_libs[i].method = "log"
      /\ DOMAIN internal_libs[i].request = {"message", "level"}
      /\ internal_libs[i].request.message = issued[i].args.message
      /\ internal_libs[i].request.level =
           CASE issued[i].fn = "log_debug" -> "DEBUG"
             [] issued[i].fn = "log_info" -> "INFO"
             [] issued[i].fn = "log_error" -> "ERROR"

C7_Witness ==
  /\ Len(issued) = 2
  /\ issued[1].fn = "log_info" /\ issued[1].args.message = "m2"
  /\ issued[2].fn = "log_error" /\ issued[2].args.message = "m1"
  /\ internal_libs[1].request = [message |-> "m2", level |-> "INFO"]
  /\ internal_libs[2].request = [message |-> "m1", level |-> "ERROR"]

IsLogCall(c) == c.fn \in LogFns
IsLogInvocation(v) == v.method = "log"

\* the log records the caller asked for, in call order
RequestedRecords ==
  LET cs == SelectSeq(issued, IsLogCall)
  IN [i \in 1..Len(cs) |->
        <<CASE cs[i].fn = "log_debug" -> "DEBUG"
            [] cs[i].fn = "log_info" -> "INFO"
            [] cs[i].fn = "log_error" -> "ERROR",
          cs[i].args.message>>]

\* the log records the stub received, in arrival order
ReceivedRecords ==
  LET vs == SelectSeq(internal_libs, IsLogInvocation)
  IN [i \in 1..Len(vs) |-> <<vs[i].request.level, vs[i].request.message>>]

\* C8: the stub's log method receives the records of successive log calls
\* in exactly the order of the calls, none dropped, duplicated or reordered.
C8_LogOrderPreserved ==
  ReceivedRecords = RequestedRecords

C8_Witness ==
  /\ Len(issued) = 2
  /\ ReceivedRecords = << <<"ERROR", "m1">>, <<"DEBUG", "m2">> >>
  /\ reply.kind = "raise"

\* C9: every call of run_bash, run_sync, run_powershell or run_expect
\* invokes exactly one stub method exactly once, the one of the same verb,
\* with a request built from that call's arguments; after N wrapper calls
\* the stub has received exactly N requests.
C9_OneInvocationPerCall ==
  /\ Len(internal_libs) = Len(issued)
  /\ \A i \in DOMAIN issued :
       issued[i].fn \in RemoteFns =>
         /\ internal_libs[i].method = issued[i].fn
         /\ internal_libs[i].request.remote_connection =
              issued[i].args.remote_connection
         /\ issued[i].fn \in RunFns =>
              internal_libs[i].request.command = issued[i].args.command
         /\ issued[i].fn = "run_sync" =>
              internal_libs[i].request.source_directory =
                issued[i].args.source_directory

C9_Witness ==
  /\ Len(issued) = 2
  /\ issued[1].fn = "run_expect"
  /\ issued[2].fn = "run_sync"
  /\ internal_libs[1].method = "run_expect"
  /\ internal_libs[2].method = "run_sync"
  /\ issued[1].args.remote_connection # issued[2].args.remote_connection

\* the dict a call's variables argument stands for
GivenVariables(c) ==
  IF c.args.variables = None THEN <<>> ELSE c.args.variables.val

\* C10: for run_bash, run_powershell and run_expect the variables map of the
\* forwarded request has exactly the keys of the caller's variables, each
\* with the caller's value; it is empty when variables is None and holds
\* nothing of an earlier call's variables.
C10_VariablesForwarded ==
  \A i \in DOMAIN issued :
    (issued[i].fn \in RunFns /\ i \in DOMAIN internal_libs) =>
      /\ DOMAIN internal_libs[i].request.variables =
           DOMAIN GivenVariables(issued[i])
      /\ \A k \in DOMAIN GivenVariables(issued[i]) :
           internal_libs[i].request.variables[k] = GivenVariables(issued[i])[k]

C10_Witness ==
  /\ Len(issued) = 2
  /\ issued[1].fn = "run_bash"
  /\ DOMAIN GivenVariables(issued[1]) = {"FOO", "BAR"}
  /\ issued[2].fn = "run_powershell"
  /\ issued[2].args.variables = None
  /\ DOMAIN internal_libs[1].request.variables = {"FOO", "BAR"}
  /\ DOMAIN internal_libs[2].request.variables = {}

====
